---------------------------- MODULE Spec2Model ----------------------------
(***************************************************************************)
(* TalentScout Hiring Assistant (src/tes1.py).                             *)
(*                                                                         *)
(* Python strings are TLA+ strings; TLC evaluates Len, SubSeq, Tail and \o *)
(* on them, and SubSeq(s, i, i) is the i-th character.  A Python list is a *)
(* sequence, a dict with string keys is a sequence of <<key, value>> pairs *)
(* in insertion order; the record save_simulated builds, whose two keys    *)
(* are fixed, is a TLA+ record.  The typographic apostrophe of the         *)
(* question texts is written as ' (the module is ASCII).                   *)
(***************************************************************************)
EXTENDS Integers, Sequences, FiniteSets, TLC

VARIABLES
    \* Tech Stack Splitter, called on its own
    raw, tokens,
    \* Fallback Question Bank, called on its own
    tech, n, questions,
    \* position of a call made on its own: "call" before, "return" after
    pc,
    \* st.session_state: the chat transcript, the Candidate Record, the
    \* Question Set
    conversation, candidate_info, last_questions,
    \* the file SIMULATED_DB_PATH
    store,
    \* datetime.utcnow(), a logical clock that advances with every submission
    clock,
    \* history: the store file at the start, the Candidate Records given to
    \* save_simulated, how the last save_simulated ended, what the external
    \* generator did in the last submission, the chat submissions made and
    \* the last chat input
    store0, saved, save_status, gemini_outcome, chats, last_chat,
    \* the runs of save_simulated of two sessions: where each run is, its
    \* `data` and its `record`
    proc_pc, proc_data, proc_record,
    \* history: the records of the runs that returned, and whether a run
    \* began while another was under way
    completed, overlapped

pureVars == <<raw, tokens, tech, n, questions, pc>>

sessionVars == <<conversation, candidate_info, last_questions>>

historyVars == <<store0, saved, save_status, gemini_outcome, chats, last_chat>>

concVars == <<proc_pc, proc_data, proc_record, completed, overlapped>>

vars == <<pureVars, sessionVars, store, clock, historyVars, concVars>>

---------------------------------------------------------------------------
(* Bounds of the model *)

\* chunks concatenated into a raw tech-stack string given to the splitter
MaxChunks == 4
\* chunks concatenated into a technology name given to the question bank
MaxParts == 2
\* largest question count asked of the question bank
MaxN == 5
\* form and chat submissions of a run of Spec_Store
MaxStoreSubmits == 2
MaxStoreChats == 1
\* form and chat submissions of a run of Spec_Generator
MaxGeneratorSubmits == 2
MaxGeneratorChats == 1
\* form and chat submissions of a run of Spec_Chat
MaxChatSubmits == 1
MaxChats == 3
\* runs of save_simulated in a run of Spec_Concurrent
MaxConcurrentSaves == 3

---------------------------------------------------------------------------
(* Python str and list primitives *)

CharAt(s, i) == SubSeq(s, i, i)

Min(a, b) == IF a <= b THEN a ELSE b

Max(a, b) == IF a >= b THEN a ELSE b

UpperLetters == "ABCDEFGHIJKLMNOPQRSTUVWXYZ"

LowerLetters == "abcdefghijklmnopqrstuvwxyz"

Digits == "0123456789"

\* c occurs in the string s (c a one-character string)
CharIn(c, s) == \E i \in 1..Len(s) : CharAt(s, i) = c

LowerChar(c) ==
    IF CharIn(c, UpperLetters)
    THEN CharAt(LowerLetters, CHOOSE i \in 1..26 : CharAt(UpperLetters, i) = c)
    ELSE c

RECURSIVE str_lower(_)
\* str.lower()
str_lower(s) ==
    IF s = "" THEN ""
    ELSE LowerChar(CharAt(s, 1)) \o str_lower(Tail(s))

\* `sub in s` on strings
str_contains(sub, s) ==
    \E i \in 0..(Len(s) - Len(sub)) : SubSeq(s, i + 1, i + Len(sub)) = sub

\* the characters str.strip() removes (the ASCII ones a TLA+ string holds)
IsSpace(c) == c \in {" ", "\t", "\n", "\r", "\f"}

RECURSIVE str_lstrip(_)
str_lstrip(s) ==
    IF s # "" /\ IsSpace(CharAt(s, 1)) THEN str_lstrip(Tail(s)) ELSE s

RECURSIVE str_rstrip(_)
str_rstrip(s) ==
    IF s # "" /\ IsSpace(CharAt(s, Len(s)))
    THEN str_rstrip(SubSeq(s, 1, Len(s) - 1))
    ELSE s

\* str.strip()
str_strip(s) == str_rstrip(str_lstrip(s))

\* the slice seq[:k], for any integer k
slice_to(seq, k) ==
    IF k >= 0 THEN SubSeq(seq, 1, Min(k, Len(seq)))
    ELSE SubSeq(seq, 1, Max(0, Len(seq) + k))

---------------------------------------------------------------------------
(* Utilities *)

sanitize_text(s) == str_strip(s)

\* the character class [,\n/|] of the split pattern
IsDelimiter(c) == c \in {",", "\n", "/", "|"}

\* \w of the regular expression
IsWordChar(c) ==
    c # "" /\ (CharIn(c, UpperLetters) \/ CharIn(c, LowerLetters)
               \/ CharIn(c, Digits) \/ c = "_")

\* \b between the characters i and i+1 of s (i in 0..Len(s))
WordBoundary(s, i) ==
    LET before == i >= 1 /\ IsWordChar(CharAt(s, i))
        after  == i + 1 <= Len(s) /\ IsWordChar(CharAt(s, i + 1))
    IN  before # after

RECURSIVE DelimiterRun(_, _)
\* the length of the match of [,\n/|]+ at character i of s (0: no match)
DelimiterRun(s, i) ==
    IF i <= Len(s) /\ IsDelimiter(CharAt(s, i))
    THEN 1 + DelimiterRun(s, i + 1)
    ELSE 0

\* as AndWordAt, without re.IGNORECASE
AndWordAt_CaseSensitive(s, i) ==
    /\ i + 2 <= Len(s)
    /\ SubSeq(s, i, i + 2) = "and"
    /\ WordBoundary(s, i - 1)
    /\ WordBoundary(s, i + 2)

\* \band\b at character i of s, under re.IGNORECASE
AndWordAt(s, i) ==
    /\ i + 2 <= Len(s)
    /\ str_lower(SubSeq(s, i, i + 2)) = "and"
    /\ WordBoundary(s, i - 1)
    /\ WordBoundary(s, i + 2)

\* the length of the match of the split pattern at character i (0: no match);
\* the first alternative is tried first
PatternMatch(s, i) ==
    IF DelimiterRun(s, i) > 0 THEN DelimiterRun(s, i)
    ELSE IF AndWordAt(s, i) THEN 3
    ELSE 0

RECURSIVE re_split(_, _, _)
\* re.split: scanning from character i, the item under way starts at `from`
re_split(s, i, from) ==
    IF i > Len(s) THEN <<SubSeq(s, from, Len(s))>>
    ELSE IF PatternMatch(s, i) > 0
         THEN <<SubSeq(s, from, i - 1)>>
              \o re_split(s, i + PatternMatch(s, i), i + PatternMatch(s, i))
         ELSE re_split(s, i + 1, from)

RECURSIVE SanitizedNonEmpty(_)
\* [sanitize_text(i) for i in items if sanitize_text(i)]
SanitizedNonEmpty(items) ==
    IF items = <<>> THEN <<>>
    ELSE (IF sanitize_text(Head(items)) # ""
          THEN <<sanitize_text(Head(items))>> ELSE <<>>)
         \o SanitizedNonEmpty(Tail(items))

split_tech_stack(s) == SanitizedNonEmpty(re_split(s, 1, 1))

---------------------------------------------------------------------------
(* Fallback question templates *)

\* the keys of FALLBACK_TEMPLATES, in the dict's order
FALLBACK_KEYS == <<"python", "django", "react", "sql", "aws">>

FALLBACK_TEMPLATES(key) ==
    CASE key = "python" -> <<
           "Explain the difference between list and tuple in Python.",
           "How does Python's garbage collection work?",
           "Write a simple function to remove duplicates from a list.",
           "Explain how to profile and optimize Python code.">>
      [] key = "django" -> <<
           "Explain Django's request/response lifecycle.",
           "How do you define a many-to-many relationship in Django models?",
           "What are signals and when would you use them?",
           "How do you handle performance in Django ORM?">>
      [] key = "react" -> <<
           "How does the virtual DOM in React improve performance?",
           "What's the difference between state and props?",
           "Explain useEffect and useMemo hooks.",
           "How do you optimize large React applications?">>
      [] key = "sql" -> <<
           "What's the difference between clustered and non-clustered indexes?",
           "How would you remove duplicates from a SQL table?",
           "Explain transactions and isolation levels.",
           "How do you use EXPLAIN ANALYZE to optimize queries?">>
      [] key = "aws" -> <<
           "What's the difference between EC2, Lambda, and Fargate?",
           "Explain IAM and how to enforce least privilege.",
           "How do you design a fault-tolerant system on AWS?">>

\* the list `generic` of fallback_generate_for_tech
GenericQuestions(t) == <<
    "What are the main components of " \o t \o "?",
    "How do you handle performance optimization in " \o t \o "?",
    "What's a common pitfall when using " \o t \o "?",
    "Describe how you'd debug an issue in a " \o t \o " project.">>

\* as KeyMatches, without the .lower()
KeyMatches_CaseSensitive(key, t) == str_contains(key, t)

\* `key in tech.lower()`
KeyMatches(key, t) == str_contains(key, str_lower(t))

RECURSIVE FallbackLoop(_, _, _)
\* the for loop over FALLBACK_TEMPLATES.items() from the k-th key on, then
\* the generic questions
FallbackLoop(t, count, k) ==
    IF k > Len(FALLBACK_KEYS) THEN slice_to(GenericQuestions(t), count)
    ELSE IF KeyMatches(FALLBACK_KEYS[k], t)
         THEN slice_to(FALLBACK_TEMPLATES(FALLBACK_KEYS[k]), count)
         ELSE FallbackLoop(t, count, k + 1)

fallback_generate_for_tech(t, count) == FallbackLoop(t, count, 1)

---------------------------------------------------------------------------
(* Python dict, str.join, str.find and slices *)

EmptyDict == <<>>

dict_has(d, key) == \E i \in 1..Len(d) : d[i][1] = key

\* d.get(key, default)
dict_get(d, key, default) ==
    IF dict_has(d, key)
    THEN d[CHOOSE i \in 1..Len(d) : d[i][1] = key][2]
    ELSE default

\* d[key] = value: a known key keeps its place, a new one goes last
dict_set(d, key, value) ==
    IF dict_has(d, key)
    THEN [i \in 1..Len(d) |-> IF d[i][1] = key THEN <<key, value>> ELSE d[i]]
    ELSE Append(d, <<key, value>>)

RECURSIVE str_join(_, _)
\* sep.join(lines)
str_join(sep, lines) ==
    IF lines = <<>> THEN ""
    ELSE IF Len(lines) = 1 THEN lines[1]
    ELSE lines[1] \o sep \o str_join(sep, Tail(lines))

RECURSIVE str_of_int(_)
\* str(i) of a natural number
str_of_int(i) ==
    IF i < 10 THEN CharAt(Digits, i + 1)
    ELSE str_of_int(i \div 10) \o CharAt(Digits, (i % 10) + 1)

\* s.find(c): the 0-based index of the first c, -1 when there is none
str_find(s, c) ==
    IF CharIn(c, s)
    THEN (CHOOSE i \in 1..Len(s) :
            CharAt(s, i) = c /\ \A j \in 1..(i - 1) : CharAt(s, j) # c) - 1
    ELSE -1

\* s.rfind(c)
str_rfind(s, c) ==
    IF CharIn(c, s)
    THEN (CHOOSE i \in 1..Len(s) :
            CharAt(s, i) = c /\ \A j \in (i + 1)..Len(s) : CharAt(s, j) # c) - 1
    ELSE -1

\* a slice bound as Python clamps it
SliceIndex(s, i) == IF i < 0 THEN Max(0, Len(s) + i) ELSE Min(i, Len(s))

\* s[a:b]
str_slice(s, a, b) == SubSeq(s, SliceIndex(s, a) + 1, SliceIndex(s, b))

---------------------------------------------------------------------------
(* Candidate Record Store *)

REDACTED == "***redacted***"

\* the file SIMULATED_DB_PATH: absent; present and json.load raises
\* (unreadable, empty, not JSON); JSON that is no list (an object, a number,
\* a string, null); a JSON list
MissingFile == [state |-> "missing", items |-> <<>>]

CorruptFile == [state |-> "corrupt", items |-> <<>>]

NonListFile == [state |-> "nonlist", items |-> <<>>]

ListFile(items) == [state |-> "list", items |-> items]

\* candidate.copy() shares nothing with candidate: the values are strings
dict_copy(d) == d

\* anonymize_candidate(candidate): the dict returned, and the caller's dict
\* after the call

anonymize_candidate_InPlace(candidate) ==
    LET anonym == dict_set(dict_set(candidate, "email", REDACTED),
                           "phone", REDACTED)
    IN  [result |-> anonym, arg |-> anonym]

anonymize_candidate(candidate) ==
    LET anonym == dict_set(dict_set(dict_copy(candidate), "email", REDACTED),
                           "phone", REDACTED)
    IN  [result |-> anonym, arg |-> candidate]

\* as LoadStore, never reading the file
LoadStore_Ignored(file) == [kind |-> "list", items |-> <<>>]

\* lines 42-48 of save_simulated: `data` before the append
LoadStore(file) ==
    CASE file.state = "missing" -> [kind |-> "list", items |-> <<>>]
      [] file.state = "corrupt" -> [kind |-> "list", items |-> <<>>]
      [] file.state = "nonlist" -> [kind |-> "nonlist", items |-> <<>>]
      [] file.state = "list"    -> [kind |-> "list", items |-> file.items]

\* the record save_simulated builds (lines 40-41) at time `now`
StoreRecord(anonym, now) == [timestamp |-> <<now, "Z">>, candidate |-> anonym]

\* as AppendAndDump, the record put first
AppendAndDump_AtFront(file, data, record) ==
    IF data.kind = "list"
    THEN [raised |-> FALSE, file |-> ListFile(<<record>> \o data.items)]
    ELSE [raised |-> TRUE, file |-> file]

\* lines 49-51 of save_simulated: data.append(record) raises AttributeError
\* on what is no list, and the file is then left as it was
AppendAndDump(file, data, record) ==
    IF data.kind = "list"
    THEN [raised |-> FALSE, file |-> ListFile(Append(data.items, record))]
    ELSE [raised |-> TRUE, file |-> file]

\* save_simulated(candidate) on the file `file` at time `now`: whether it
\* raised, the file after it, and the caller's dict after it
save_simulated(candidate, file, now) ==
    LET anon == anonymize_candidate(candidate)
        out  == AppendAndDump(file, LoadStore(file),
                              StoreRecord(anon.result, now))
    IN  [raised |-> out.raised, file |-> out.file, arg |-> anon.arg]

---------------------------------------------------------------------------
(* Question generation *)

RECURSIVE DeterministicLoop(_, _, _)
DeterministicLoop(tech_list, n_per_tech, acc) ==
    IF tech_list = <<>> THEN acc
    ELSE DeterministicLoop(
           Tail(tech_list), n_per_tech,
           dict_set(acc, Head(tech_list),
                    fallback_generate_for_tech(Head(tech_list), n_per_tech)))

\* {tech: fallback_generate_for_tech(tech, n_per_tech) for tech in tech_list}
deterministic_generate_questions(tech_list) ==
    DeterministicLoop(tech_list, 4, EmptyDict)

\* replies of the external service with a JSON object in them
ReplyThree ==
    "{\"tech_questions\": {\"Python\": [\"Q1\", \"Q2\", \"Q3\"]}}"

ReplyOne == "{\"tech_questions\": {\"Python\": [\"Q1\"]}}"

ReplyNoKey == "{\"questions\": {\"Python\": [\"Q1\", \"Q2\", \"Q3\"]}}"

\* json.loads on the substrings the replies of ServiceReplies lead to: the
\* three documents above parse, every other one raises
json_loads(s) ==
    CASE s = ReplyThree ->
           [raised |-> FALSE,
            value |-> << <<"tech_questions",
                           << <<"Python", <<"Q1", "Q2", "Q3">> >> >> >> >>]
      [] s = ReplyOne ->
           [raised |-> FALSE,
            value |-> << <<"tech_questions",
                           << <<"Python", <<"Q1">> >> >> >> >>]
      [] s = ReplyNoKey ->
           [raised |-> FALSE,
            value |-> << <<"questions",
                           << <<"Python", <<"Q1", "Q2", "Q3">> >> >> >> >>]
      [] OTHER -> [raised |-> TRUE, value |-> EmptyDict]

\* what the import of the client library and the service can do in one
\* submission: `kind` names the case, `text` is response.text
ServiceReplies == {
    [kind |-> "unavailable", text |-> ""],
    [kind |-> "call_raised", text |-> ""],
    [kind |-> "invalid_json", text |-> "Sorry, I cannot help with that."],
    [kind |-> "invalid_json", text |-> "{tech_questions: Python}"],
    [kind |-> "missing_key", text |-> ReplyNoKey],
    [kind |-> "ok", text |-> "Sure! " \o ReplyThree \o " Good luck."],
    [kind |-> "ok", text |-> ReplyOne] }

\* the cases the External Question Generator is to fail in
FailureKinds == {"unavailable", "call_raised", "invalid_json", "missing_key"}

\* gemini_generate_questions: whether it raised and the mapping returned
gemini_generate_questions(tech_list, service) ==
    IF service.kind = "unavailable" THEN [raised |-> TRUE, value |-> EmptyDict]
    ELSE IF service.kind = "call_raised"
         THEN [raised |-> TRUE, value |-> EmptyDict]
    ELSE LET text  == service.text
             start == str_find(text, "{")
             end   == str_rfind(text, "}")
             data  == json_loads(str_slice(text, start, end + 1))
         IN  IF data.raised THEN [raised |-> TRUE, value |-> EmptyDict]
             ELSE [raised |-> FALSE,
                   value |-> dict_get(data.value, "tech_questions", EmptyDict)]

---------------------------------------------------------------------------
(* Follow-up handler *)

END_KEYWORDS == {"exit", "quit", "bye", "goodbye", "end", "stop"}

FarewellMessage == "Thanks for chatting. We'll be in touch soon!"

HelpMessage ==
    "I can regenerate questions, show your info, or end the chat. Try 'regenerate' or 'exit'."

RECURSIVE QuestionLines(_, _)
\* the lines "  i. q" of one technology, from the i-th question on
QuestionLines(qs, i) ==
    IF i > Len(qs) THEN <<>>
    ELSE <<"  " \o str_of_int(i) \o ". " \o qs[i]>> \o QuestionLines(qs, i + 1)

RECURSIVE ListingLines(_)
ListingLines(qset) ==
    IF qset = <<>> THEN <<>>
    ELSE <<Head(qset)[1] \o ":">> \o QuestionLines(Head(qset)[2], 1)
         \o ListingLines(Tail(qset))

RECURSIVE json_escape(_)
\* the body of a JSON string as json.dumps writes it (ASCII text)
json_escape(s) ==
    IF s = "" THEN ""
    ELSE (CASE CharAt(s, 1) = "\"" -> "\\\""
            [] CharAt(s, 1) = "\\" -> "\\\\"
            [] CharAt(s, 1) = "\n" -> "\\n"
            [] CharAt(s, 1) = "\t" -> "\\t"
            [] CharAt(s, 1) = "\r" -> "\\r"
            [] OTHER -> CharAt(s, 1))
         \o json_escape(Tail(s))

\* json.dumps(d, indent=2) of a dict of strings
json_dumps(d) ==
    IF d = <<>> THEN "{}"
    ELSE "{\n"
         \o str_join(",\n",
              [i \in 1..Len(d) |->
                 "  \"" \o json_escape(d[i][1]) \o "\": \""
                 \o json_escape(d[i][2]) \o "\""])
         \o "\n}"

\* as handle_followup, testing the termination keywords first
handle_followup_EndFirst(text, info, qset) ==
    LET text_l == str_lower(text)
    IN  IF \E k \in END_KEYWORDS : str_contains(k, text_l)
        THEN [reply |-> FarewellMessage, last_questions |-> qset]
        ELSE IF str_contains("regenerate", text_l)
        THEN LET new == deterministic_generate_questions(
                          split_tech_stack(dict_get(info, "tech_stack_raw", "")))
             IN  [reply |-> str_join("\n", <<"Here are new questions:">>
                                            \o ListingLines(new)),
                  last_questions |-> [present |-> TRUE, map |-> new]]
        ELSE IF str_contains("show my info", text_l)
        THEN [reply |-> json_dumps(dict_set(dict_set(dict_copy(info),
                                   "email", "***"), "phone", "***")),
              last_questions |-> qset]
        ELSE [reply |-> HelpMessage, last_questions |-> qset]

\* handle_followup(text) in a session whose Candidate Record is info and
\* whose Question Set is qset: the reply and the Question Set after it
handle_followup(text, info, qset) ==
    LET text_l == str_lower(text)
    IN  IF str_contains("regenerate", text_l)
        THEN LET new == deterministic_generate_questions(
                          split_tech_stack(dict_get(info, "tech_stack_raw", "")))
             IN  [reply |-> str_join("\n", <<"Here are new questions:">>
                                            \o ListingLines(new)),
                  last_questions |-> [present |-> TRUE, map |-> new]]
        ELSE IF str_contains("show my info", text_l)
        THEN [reply |-> json_dumps(dict_set(dict_set(dict_copy(info),
                                   "email", "***"), "phone", "***")),
              last_questions |-> qset]
        ELSE IF \E k \in END_KEYWORDS : str_contains(k, text_l)
        THEN [reply |-> FarewellMessage, last_questions |-> qset]
        ELSE [reply |-> HelpMessage, last_questions |-> qset]

---------------------------------------------------------------------------
(* The session: form submissions and chat submissions, one at a time.      *)
(* Spec_Store, Spec_Generator and Spec_Chat are this one program, each     *)
(* with its own sets of inputs.                                            *)

\* the store file a run can find
OldRecord ==
    StoreRecord(<< <<"name", "Old">>, <<"email", REDACTED>>,
                   <<"phone", REDACTED>> >>, 0)

InitialStores ==
    {MissingFile, CorruptFile, NonListFile, ListFile(<<>>),
     ListFile(<<OldRecord>>)}

\* the dict `info` of the submission handler (lines 182-186); `notes` is no
\* name of the script, so the notes are ""
FormInfo(email, phone, tech_stack_raw) == <<
    <<"name", "Ada">>, <<"email", email>>, <<"phone", phone>>,
    <<"years", "3">>, <<"position", "Backend Developer">>,
    <<"location", "Pune">>, <<"tech_stack_raw", tech_stack_raw>>,
    <<"notes", "">> >>

NoQuestions == [present |-> FALSE, map |-> EmptyDict]

NoService == [kind |-> "not_used", text |-> ""]

SessionInit ==
    /\ conversation = <<>>
    /\ candidate_info = EmptyDict
    /\ last_questions = NoQuestions
    /\ clock = 0
    /\ saved = <<>>
    /\ save_status = "none"
    /\ gemini_outcome = "none"
    /\ chats = 0
    /\ last_chat = ""

PureIdle ==
    /\ raw = "" /\ tokens = <<>>
    /\ tech = "" /\ n = 0 /\ questions = <<>>
    /\ pc = "idle"

Procs == {1, 2}

ConcIdle ==
    /\ proc_pc = [p \in Procs |-> "idle"]
    /\ proc_data = [p \in Procs |-> [kind |-> "list", items |-> <<>>]]
    /\ proc_record = [p \in Procs |-> OldRecord]
    /\ completed = <<>>
    /\ overlapped = FALSE

\* as IsBlank, without the strip
IsBlank_NoStrip(user_input) == user_input = ""

\* `not user_input.strip()`
IsBlank(user_input) == str_strip(user_input) = ""

\* the questions of a submission (lines 192-200)
SubmissionQuestions(techs, use_gemini, service) ==
    IF use_gemini
    THEN LET g == gemini_generate_questions(techs, service)
         IN  IF g.raised THEN deterministic_generate_questions(techs)
             ELSE g.value
    ELSE deterministic_generate_questions(techs)

\* the form is submitted (lines 181-209); max bounds the submissions of a run
SubmitForm(email, phone, tech_stack_raw, use_gemini, service, max) ==
    LET info  == FormInfo(email, phone, tech_stack_raw)
        techs == split_tech_stack(tech_stack_raw)
        qs    == SubmissionQuestions(techs, use_gemini, service)
        save  == save_simulated(info, store, clock + 1)
    IN  /\ clock < max
        /\ clock' = clock + 1
        /\ candidate_info' = save.arg
        /\ last_questions' = [present |-> TRUE, map |-> qs]
        /\ store' = save.file
        /\ saved' = Append(saved, info)
        /\ save_status' = IF save.raised THEN "raised" ELSE "ok"
        /\ gemini_outcome' = IF use_gemini THEN service.kind ELSE "not_used"
        /\ UNCHANGED <<conversation, store0, chats, last_chat, pureVars, concVars>>

\* the chat form is submitted (lines 219-225); max bounds the chat
\* submissions of a run
SubmitChat(user_input, max) ==
    /\ chats < max
    /\ chats' = chats + 1
    /\ last_chat' = user_input
    /\ IF IsBlank(user_input)
       THEN UNCHANGED <<conversation, last_questions>>
       ELSE LET r == handle_followup(user_input, candidate_info, last_questions)
            IN  /\ conversation' = conversation
                                   \o << <<"You", user_input>>,
                                         <<"Assistant", r.reply>> >>
                /\ last_questions' = r.last_questions
    /\ UNCHANGED <<candidate_info, store, clock, store0, saved, save_status,
                   gemini_outcome, pureVars, concVars>>

(* Spec_Store: every store file, every email and phone *)

Emails == {"ada@example.com", REDACTED}

Phones == {"555-0100", ""}

Init_Store ==
    /\ SessionInit
    /\ store \in InitialStores
    /\ store0 = store
    /\ PureIdle
    /\ ConcIdle

Next_Store ==
    \/ \E email \in Emails, phone \in Phones,
          tech_stack_raw \in {"Python, AWS", "Rust"} :
         SubmitForm(email, phone, tech_stack_raw, FALSE, NoService,
                    MaxStoreSubmits)
    \/ \E user_input \in {"show my info", "regenerate"} :
         SubmitChat(user_input, MaxStoreChats)

Spec_Store == Init_Store /\ [][Next_Store]_vars

(* Spec_Generator: everything the external generator can do *)

Init_Generator ==
    /\ SessionInit
    /\ store = MissingFile
    /\ store0 = store
    /\ PureIdle
    /\ ConcIdle

Next_Generator ==
    \/ \E tech_stack_raw \in {"Python, AWS", "Rust and mysql/Rust", ""},
          service \in ServiceReplies :
         SubmitForm("ada@example.com", "555-0100", tech_stack_raw, TRUE,
                    service, MaxGeneratorSubmits)
    \/ \E tech_stack_raw \in {"Python, AWS", "Rust and mysql/Rust", ""} :
         SubmitForm("ada@example.com", "555-0100", tech_stack_raw, FALSE,
                    NoService, MaxGeneratorSubmits)
    \/ \E user_input \in {"regenerate", "hello"} :
         SubmitChat(user_input, MaxGeneratorChats)

Spec_Generator == Init_Generator /\ [][Next_Generator]_vars

(* Spec_Chat: the chat inputs *)

ChatInputs == {
    "", "   ", "hello",
    "Please REGENERATE and then exit",
    "regenerate, then show my info",
    "show my info",
    "Show my info and stop",
    "Goodbye" }

Init_Chat ==
    /\ SessionInit
    /\ store = MissingFile
    /\ store0 = store
    /\ PureIdle
    /\ ConcIdle

Next_Chat ==
    \/ \E tech_stack_raw \in {"Python, AWS", ""} :
         SubmitForm("ada@example.com", "555-0100", tech_stack_raw, FALSE,
                    NoService, MaxChatSubmits)
    \/ \E user_input \in ChatInputs : SubmitChat(user_input, MaxChats)

Spec_Chat == Init_Chat /\ [][Next_Chat]_vars

---------------------------------------------------------------------------
(* Two sessions of one server process save to the one store file: each     *)
(* script run is a thread, and nothing orders the file operations of two   *)
(* runs of save_simulated.  A run reads the file (lines 40-48), appends    *)
(* and opens the file for writing, which empties it (lines 49-50), and     *)
(* dumps the list (line 51).                                               *)

\* lines 40-48: the record is built and the file is read
BeginSave(p, candidate) ==
    /\ proc_pc[p] = "idle"
    /\ clock < MaxConcurrentSaves
    /\ clock' = clock + 1
    /\ proc_record' = [proc_record EXCEPT ![p] =
                         StoreRecord(anonymize_candidate(candidate).result,
                                     clock + 1)]
    /\ proc_data' = [proc_data EXCEPT ![p] = LoadStore(store)]
    /\ proc_pc' = [proc_pc EXCEPT ![p] = "loaded"]
    /\ overlapped' = (overlapped \/ \E q \in Procs \ {p} : proc_pc[q] # "idle")
    /\ UNCHANGED <<store, completed>>
    /\ UNCHANGED <<pureVars, sessionVars, historyVars>>

\* lines 49-50: the append, which raises on what is no list and ends the
\* run, and open(..., "w"), which leaves an empty file
OpenForWrite(p) ==
    /\ proc_pc[p] = "loaded"
    /\ IF proc_data[p].kind = "list"
       THEN /\ proc_data' = [proc_data EXCEPT ![p] =
                   [kind |-> "list",
                    items |-> Append(proc_data[p].items, proc_record[p])]]
            /\ store' = CorruptFile
            /\ proc_pc' = [proc_pc EXCEPT ![p] = "opened"]
       ELSE /\ proc_pc' = [proc_pc EXCEPT ![p] = "idle"]
            /\ UNCHANGED <<proc_data, store>>
    /\ UNCHANGED <<clock, proc_record, completed, overlapped>>
    /\ UNCHANGED <<pureVars, sessionVars, historyVars>>

\* line 51: json.dump and the close of the file
Dump(p) ==
    /\ proc_pc[p] = "opened"
    /\ store' = ListFile(proc_data[p].items)
    /\ proc_pc' = [proc_pc EXCEPT ![p] = "idle"]
    /\ completed' = Append(completed, proc_record[p])
    /\ UNCHANGED <<clock, proc_data, proc_record, overlapped>>
    /\ UNCHANGED <<pureVars, sessionVars, historyVars>>

Init_Concurrent ==
    /\ SessionInit
    /\ store \in InitialStores
    /\ store0 = store
    /\ PureIdle
    /\ ConcIdle

Next_Concurrent ==
    \/ \E p \in Procs, email \in Emails :
         BeginSave(p, FormInfo(email, "555-0100", "Python, AWS"))
    \/ \E p \in Procs : OpenForWrite(p)
    \/ \E p \in Procs : Dump(p)

Spec_Concurrent == Init_Concurrent /\ [][Next_Concurrent]_vars

---------------------------------------------------------------------------
(* The splitter called on its own, on every raw string built of at most    *)
(* MaxChunks chunks.                                                       *)

SplitChunks == {"and", "AND", " and ", "Go", " ", ",", "/", "|", "\n"}

RECURSIVE Concatenations(_, _)
\* the strings made of at most k members of chunks
Concatenations(chunks, k) ==
    IF k = 0 THEN {""}
    ELSE Concatenations(chunks, k - 1)
         \cup {s \o c : s \in Concatenations(chunks, k - 1), c \in chunks}

RawInputs == Concatenations(SplitChunks, MaxChunks)

TechParts == {"Python", "DJANGO", "react", "MySQL", "Aws", "Rust", " ", "go"}

TechInputs == Concatenations(TechParts, MaxParts)

NoCall == <<>>

\* the session and the store, left alone by a call made on its own
SessionIdle ==
    /\ SessionInit
    /\ store = MissingFile
    /\ store0 = MissingFile
    /\ ConcIdle

Init_Split ==
    /\ raw \in RawInputs
    /\ tokens = NoCall
    /\ pc = "call"
    /\ tech = "" /\ n = 0 /\ questions = NoCall
    /\ SessionIdle

CallSplit ==
    /\ pc = "call"
    /\ tokens' = split_tech_stack(raw)
    /\ pc' = "return"
    /\ UNCHANGED <<raw, tech, n, questions, sessionVars, store, clock,
                   historyVars, concVars>>

Next_Split == CallSplit

Spec_Split == Init_Split /\ [][Next_Split]_vars

Init_Fallback ==
    /\ tech \in TechInputs
    /\ n \in 0..MaxN
    /\ questions = NoCall
    /\ pc = "call"
    /\ raw = "" /\ tokens = NoCall
    /\ SessionIdle

CallFallback ==
    /\ pc = "call"
    /\ questions' = fallback_generate_for_tech(tech, n)
    /\ pc' = "return"
    /\ UNCHANGED <<raw, tokens, tech, n, sessionVars, store, clock,
                   historyVars, concVars>>

Next_Fallback == CallFallback

Spec_Fallback == Init_Fallback /\ [][Next_Fallback]_vars

---------------------------------------------------------------------------
(* Properties *)

StartsWith(s, prefix) ==
    Len(prefix) <= Len(s) /\ SubSeq(s, 1, Len(prefix)) = prefix

AllSpace(s) == \A i \in 1..Len(s) : IsSpace(CharAt(s, i))

LastReply == conversation[Len(conversation)][2]

MentionsEnd(text_l) ==
    \E k \in {"exit", "quit", "bye", "goodbye", "end", "stop"} :
        str_contains(k, text_l)

\* the reply to "show my info": the record as JSON, email and phone masked
IsInfoReply(reply) ==
    /\ StartsWith(reply, "{\n")
    /\ str_contains("  \"email\": \"***\"", reply)
    /\ str_contains("  \"phone\": \"***\"", reply)

\* C1: the reply to the last chat input that was not blank follows the
\* priority regenerate > show my info > termination keyword > help: an input
\* with "regenerate" in its lower-cased text gets the listing that starts
\* "Here are new questions:" whatever else it holds, one with "show my info"
\* and no "regenerate" gets the info reply, one with only a termination
\* keyword gets the farewell, and one with none of the three gets exactly the
\* help message.
C1_PriorityOrder ==
    (chats > 0 /\ ~AllSpace(last_chat)) =>
        LET text_l == str_lower(last_chat)
            regen  == str_contains("regenerate", text_l)
            show   == str_contains("show my info", text_l)
        IN  /\ Len(conversation) >= 2
            /\ conversation[Len(conversation) - 1] = <<"You", last_chat>>
            /\ regen => StartsWith(LastReply, "Here are new questions:")
            /\ (~regen /\ show) => IsInfoReply(LastReply)
            /\ (~regen /\ ~show /\ MentionsEnd(text_l)) =>
                   LastReply = FarewellMessage
            /\ (~regen /\ ~show /\ ~MentionsEnd(text_l)) =>
                   LastReply = HelpMessage

\* an input with "regenerate" and a termination keyword was answered with
\* the listing of the questions of the submitted tech stack
C1_Witness ==
    /\ last_chat = "Please REGENERATE and then exit"
    /\ clock > 0
    /\ Len(conversation) >= 2
    /\ StartsWith(LastReply, "Here are new questions:\nPython:\n  1. ")

\* C2 (as claimed): after a submission in which the external generator was
\* enabled and was unavailable, threw, answered with no valid JSON or
\* answered with JSON that lacks "tech_questions", the Question Set is the
\* deterministic fallback for the technologies of the submitted tech stack.
C2_EveryFailureFallsBack ==
    gemini_outcome \in FailureKinds =>
        last_questions =
            [present |-> TRUE,
             map |-> deterministic_generate_questions(split_tech_stack(
                         dict_get(candidate_info, "tech_stack_raw", "")))]

\* the Candidate Record c with email and phone replaced by the marker
Anonymized(c) ==
    [j \in 1..Len(c) |->
        IF c[j][1] \in {"email", "phone"} THEN <<c[j][1], "***redacted***">>
        ELSE c[j]]

\* C3: the record a save appends holds the saved Candidate Record with email
\* and phone equal to "***redacted***" and every other field as it was, and
\* the Candidate Record of the session is the one that was saved, with its
\* own email and phone.
C3_AnonymizedCopy ==
    /\ saved # <<>> => candidate_info = saved[Len(saved)]
    /\ save_status = "ok" =>
         /\ store.state = "list" /\ store.items # <<>>
         /\ LET c      == saved[Len(saved)]
                anonym == store.items[Len(store.items)].candidate
            IN  /\ Len(anonym) = Len(c)
                /\ \A j \in 1..Len(c) :
                      /\ anonym[j][1] = c[j][1]
                      /\ anonym[j][2] =
                            IF c[j][1] \in {"email", "phone"}
                            THEN "***redacted***" ELSE c[j][2]
                /\ dict_has(anonym, "email") /\ dict_has(anonym, "phone")

\* a record with a real email and phone was saved and redacted in the store
C3_Witness ==
    /\ save_status = "ok"
    /\ dict_get(candidate_info, "email", "") = "ada@example.com"
    /\ dict_get(candidate_info, "phone", "") = "555-0100"
    /\ dict_get(store.items[Len(store.items)].candidate, "email", "")
         = "***redacted***"

StartedEmpty == store0 = MissingFile \/ store0 = ListFile(<<>>)

C4_NEntries ==
    StartedEmpty =>
        /\ saved # <<>> => store.state = "list"
        /\ Len(store.items) = Len(saved)
        /\ \A i \in 1..Len(saved) :
              store.items[i].candidate = Anonymized(saved[i])

C4_AppendOnly ==
    (store' # store /\ store.state = "list") =>
        /\ store'.state = "list"
        /\ Len(store'.items) = Len(store.items) + 1
        /\ SubSeq(store'.items, 1, Len(store.items)) = store.items

\* C4: from a missing or empty store, N saves made one after the other leave
\* exactly N entries, the i-th the anonymized copy of the i-th saved record;
\* and every save of a list keeps its entries, in order, and adds one at
\* the end.
C4_SequentialSaves == []C4_NEntries /\ [][C4_AppendOnly]_vars

\* two different records were saved to a store that started missing
C4_Witness ==
    /\ store0 = MissingFile
    /\ Len(saved) = 2 /\ saved[1] # saved[2]
    /\ Len(store.items) = 2

\* C5 (as claimed): no save fails; and the first save on a store file that
\* was missing or corrupt in any way (unreadable, no JSON, JSON that is no
\* list) leaves a list of exactly the one new record.
C5_SaveNeverFails ==
    /\ save_status # "raised"
    /\ (clock = 1 /\ store0.state \in {"missing", "corrupt", "nonlist"}) =>
           (store.state = "list" /\ Len(store.items) = 1)

\* C6 (as claimed): every technology of the Question Set has 3 to 5 questions.
C6_ThreeToFiveQuestions ==
    \A i \in 1..Len(last_questions.map) :
        Len(last_questions.map[i][2]) \in 3..5

\* the first k elements of seq, all of them when there are fewer
FirstN(seq, k) == [i \in 1..(IF k < Len(seq) THEN k ELSE Len(seq)) |-> seq[i]]

\* the positions of the keys that occur in the lower-cased technology name
KeysIn(t) ==
    {k \in 1..5 :
        str_contains(<<"python", "django", "react", "sql", "aws">>[k],
                     str_lower(t))}

\* C7: fallback_generate_for_tech(tech, n) returns at most n questions: the
\* first n predefined questions of the first key, in the order python,
\* django, react, sql, aws, that the lower-cased tech contains; with no such
\* key, the first n of the 4 generic questions, each with the technology
\* name in it; "Python" with n = 4 gives the 4 predefined Python questions.
C7_FallbackQuestions ==
    pc = "return" =>
        /\ Len(questions) <= n
        /\ IF KeysIn(tech) # {}
           THEN LET first == CHOOSE k \in KeysIn(tech) :
                                \A j \in KeysIn(tech) : k <= j
                IN  questions = FirstN(FALLBACK_TEMPLATES(FALLBACK_KEYS[first]), n)
           ELSE /\ questions = FirstN(GenericQuestions(tech), n)
                /\ Len(questions) = (IF n < 4 THEN n ELSE 4)
                /\ \A i \in 1..Len(questions) : str_contains(tech, questions[i])
        /\ (tech = "Python" /\ n = 4) =>
              questions = <<
                "Explain the difference between list and tuple in Python.",
                "How does Python's garbage collection work?",
                "Write a simple function to remove duplicates from a list.",
                "Explain how to profile and optimize Python code.">>

\* a name with two keys in it got the questions of the key enumerated first
C7_Witness ==
    /\ pc = "return"
    /\ tech = "reactPython" /\ n = 4
    /\ questions = FALLBACK_TEMPLATES("python")

\* the word "and", in any letter case, at character j of s
IsAndWord(s, j) ==
    /\ j >= 1 /\ j + 2 <= Len(s)
    /\ CharAt(s, j) \in {"a", "A"}
    /\ CharAt(s, j + 1) \in {"n", "N"}
    /\ CharAt(s, j + 2) \in {"d", "D"}
    /\ (j = 1 \/ ~IsWordChar(CharAt(s, j - 1)))
    /\ (j + 2 = Len(s) \/ ~IsWordChar(CharAt(s, j + 3)))

\* the characters of s that are cut out: the delimiters and the words "and"
CutPositions(s) ==
    {i \in 1..Len(s) :
        \/ CharAt(s, i) \in {",", "/", "|", "\n"}
        \/ \E j \in (i - 2)..i : IsAndWord(s, j)}

\* the first characters of the trimmed segments of s, cut being
\* CutPositions(s): every character before it is cut, is white space, or
\* has a cut after it
TokenStarts(s, cut) ==
    {a \in (1..Len(s)) \ cut :
        /\ ~IsSpace(CharAt(s, a))
        /\ \A i \in 1..(a - 1) :
              i \in cut \/ IsSpace(CharAt(s, i)) \/ (\E k \in (i + 1)..(a - 1) : k \in cut)}

\* their last characters
TokenEnds(s, cut) ==
    {b \in (1..Len(s)) \ cut :
        /\ ~IsSpace(CharAt(s, b))
        /\ \A i \in (b + 1)..Len(s) :
              i \in cut \/ IsSpace(CharAt(s, i)) \/ (\E k \in (b + 1)..(i - 1) : k \in cut)}

\* the trimmed, non-empty segments of s in the order of s: the i-th runs
\* from the i-th start to the i-th end
ExpectedTokens(s) ==
    LET cut    == CutPositions(s)
        starts == TokenStarts(s, cut)
        ends   == TokenEnds(s, cut)
        Nth(S, i) == CHOOSE x \in S : Cardinality({y \in S : y < x}) = i - 1
    IN  IF Cardinality(starts) # Cardinality(ends) THEN <<"?">>
        ELSE [i \in 1..Cardinality(starts) |->
                SubSeq(s, Nth(starts, i), Nth(ends, i))]

\* C8: split_tech_stack returns the segments between the commas, slashes,
\* pipes, newlines and words "and" (any letter case) of its input, trimmed,
\* the empty ones dropped, in input order, duplicates kept; no token is empty,
\* starts or ends with white space, or holds a delimiter; an input of white
\* space only gives the empty sequence.
C8_SplitTokens ==
    pc = "return" =>
        /\ tokens = ExpectedTokens(raw)
        /\ \A i \in 1..Len(tokens) :
              /\ tokens[i] # ""
              /\ CutPositions(tokens[i]) = {}
              /\ ~IsSpace(CharAt(tokens[i], 1))
              /\ ~IsSpace(CharAt(tokens[i], Len(tokens[i])))
        /\ AllSpace(raw) => tokens = <<>>

\* an input was cut at the word "and", the white space around it trimmed
\* and the duplicate kept
C8_Witness ==
    /\ pc = "return"
    /\ raw = "Go and Go"
    /\ tokens = <<"Go", "Go">>

C9_Alternates ==
    /\ Len(conversation) % 2 = 0
    /\ \A i \in 1..Len(conversation) :
          conversation[i][1] = (IF i % 2 = 1 THEN "You" ELSE "Assistant")

C9_ChatStep ==
    chats' # chats =>
        IF AllSpace(last_chat')
        THEN UNCHANGED <<conversation, candidate_info, last_questions>>
        ELSE /\ Len(conversation') = Len(conversation) + 2
             /\ SubSeq(conversation', 1, Len(conversation)) = conversation
             /\ conversation'[Len(conversation) + 1] = <<"You", last_chat'>>
             /\ conversation'[Len(conversation) + 2][1] = "Assistant"

\* C9: a chat submission of an empty or white-space input changes nothing of
\* the session; any other appends the ("You", input) pair and then the
\* ("Assistant", reply) pair; so the transcript always has even length and
\* alternates the two senders.
C9_ChatTranscript == []C9_Alternates /\ [][C9_ChatStep]_vars

\* a white-space input was submitted after an input that was answered
C9_Witness ==
    /\ chats = 2
    /\ last_chat = "   "
    /\ Len(conversation) = 2

AllIdle == \A p \in Procs : proc_pc[p] = "idle"

\* with every run of save_simulated over, the record of a run that returned
\* is not in the store
LostUpdate ==
    /\ AllIdle
    /\ \E i \in 1..Len(completed) :
          \A j \in 1..Len(store.items) : store.items[j] # completed[i]

\* C10: the record of a completed save is missing from the store only after
\* two saves interleaved (one began while the other was under way): saves
\* made one at a time lose nothing, interleaved ones can.
C10_LostOnlyWhenInterleaved == LostUpdate => overlapped

\* two saves on a missing store returned and the store holds one record
C10_Witness ==
    /\ store0 = MissingFile
    /\ AllIdle
    /\ Len(completed) = 2
    /\ store.state = "list" /\ Len(store.items) = 1
    /\ LostUpdate

===========================================================================
